---- MODULE Spec2Model ----
(***************************************************************************)
(* Model of sphinx_click_custom/ext.py: the help-text formatter            *)
(* (_format_help), the command introspector (_format_command_custom) and   *)
(* the click-custom directive (ClickCustomDirective.run).                  *)
(*                                                                         *)
(* A Python str is a sequence of code points (naturals).  An optional      *)
(* string (str or None) is a record [is_none, str].                        *)
(***************************************************************************)
EXTENDS Integers, Sequences, FiniteSets, TLC

VARIABLES
    pc,            \* "format" / "run": operation pending; "done": it returned
    help_string,   \* _format_help: the argument
    stripped,      \* _format_help: help_string after ansi_escape.sub (line 38)
    lines,         \* _format_help: the sequence of lines the generator yields
    arguments,     \* directive: self.arguments[0], the reference string
    options,       \* directive: self.options, reduced to the "prog" entry
    env,           \* directive: what import_module / getattr find for the reference
    log,           \* the module-level logger: sequence of records
    ctx,           \* directive: the click.Context built by run, or NoContext
    content,       \* directive: the ViewList handed to nested_parse, or NotParsed
    nodes,         \* directive: the value run returns
    raised         \* directive: the exception that left run, or "none"

vars == <<pc, help_string, stripped, lines, arguments, options, env, log, ctx,
          content, nodes, raised>>

----------------------------------------------------------------------------
(* Code points *)

BS  == 8       \* "\b", the legacy group marker
LF  == 10
CR  == 13
ESC == 27
SP  == 32
COLON == 58
LBRACKET == 91
BAR == 124
TREE == 9492   \* U+2514, box-drawing glyph of a tree diagram

Whitespace == {SP, 9}

(* Bounds *)
MaxLen     == 5   \* longest help string over the escape alphabet
MaxTreeLen == 5   \* longest help string over the tree alphabet
MaxRefLen  == 5   \* longest reference string

EscAlphabet  == {ESC, LBRACKET, 48, SP, 65, BAR, LF, BS}
TreeAlphabet == {SP, TREE, LF, BS, 97}
RefAlphabet  == {COLON, 109, 99}

StringsOver(alphabet, n) == UNION {[1..k -> alphabet] : k \in 0..n}

----------------------------------------------------------------------------
(* The regular expression of line 37:                                      *)
(*      \x1B(?:[@-Z\\-_]|\[[0-?]*[ -/]*[@-~])                              *)

Fe_class     == (64..90) \cup (92..95)   \* [@-Z\\-_]
Param_class  == 48..63                   \* [0-?]
Inter_class  == 32..47                   \* [ -/]
Final_class  == 64..126                  \* [@-~]

\* Number of consecutive characters of s, from position i on, that are in cls
\* (a greedy star; the classes are disjoint, so no backtracking changes it).
RECURSIVE RunLen(_, _, _)
RunLen(s, i, cls) ==
    IF i <= Len(s) /\ s[i] \in cls THEN 1 + RunLen(s, i + 1, cls) ELSE 0

\* Length of the match of ansi_escape that starts at position i of s; 0 if none.
MatchLen(s, i) ==
    IF i > Len(s) \/ s[i] # ESC THEN 0
    ELSE IF i + 1 > Len(s) THEN 0
    ELSE IF s[i + 1] \in Fe_class THEN 2
    ELSE IF s[i + 1] # LBRACKET THEN 0
    ELSE LET p == RunLen(s, i + 2, Param_class)
             q == RunLen(s, i + 2 + p, Inter_class)
             f == i + 2 + p + q
         IN IF f <= Len(s) /\ s[f] \in Final_class THEN f - i + 1 ELSE 0

\* ansi_escape.sub("", s) from position i on: one left-to-right scan that
\* drops each match and resumes after it.
RECURSIVE SubFrom(_, _)
SubFrom(s, i) ==
    IF i > Len(s) THEN <<>>
    ELSE LET m == MatchLen(s, i)
         IN IF m > 0 THEN SubFrom(s, i + m)
            ELSE <<s[i]>> \o SubFrom(s, i + 1)

\* Variant: sub with count=1, only the first match is dropped.
RECURSIVE SubFirstFrom(_, _)
SubFirstFrom(s, i) ==
    IF i > Len(s) THEN <<>>
    ELSE LET m == MatchLen(s, i)
         IN IF m > 0 THEN SubSeq(s, i + m, Len(s))
            ELSE <<s[i]>> \o SubFirstFrom(s, i + 1)

ansi_escape_sub_first(s) == SubFirstFrom(s, 1)

ansi_escape_sub(s) == SubFrom(s, 1)

\* The line boundaries of str.splitlines().
LineBreaks == {LF, 11, 12, CR, 28, 29, 30, 133, 8232, 8233}

RECURSIVE SplitFrom(_, _, _)
SplitFrom(s, i, cur) ==
    IF i > Len(s) THEN (IF cur = <<>> THEN <<>> ELSE <<cur>>)
    ELSE IF s[i] \in LineBreaks
         THEN LET step == IF s[i] = CR /\ i < Len(s) /\ s[i + 1] = LF THEN 2 ELSE 1
              IN <<cur>> \o SplitFrom(s, i + step, <<>>)
         ELSE SplitFrom(s, i + 1, Append(cur, s[i]))

\* str.splitlines(): no trailing empty line, "\r\n" is one boundary.
splitlines(s) == SplitFrom(s, 1, <<>>)

\* Variant: the original sphinx_click bar mode, where a line after a
\* marker-only line is emitted with the prefix "| ".
_format_help_bar_mode(s) ==
    LET L == splitlines(ansi_escape_sub(s))
    IN [i \in 1..Len(L) |->
           IF i > 1 /\ L[i - 1] = <<BS>> /\ L[i] # <<>> THEN <<BAR, SP>> \o L[i] ELSE L[i]]

\* Variant: every line is left-stripped before it is yielded.
RECURSIVE LStrip(_)
LStrip(line) ==
    IF line # <<>> /\ Head(line) \in Whitespace THEN LStrip(Tail(line)) ELSE line

_format_help_lstrip(s) ==
    LET L == splitlines(ansi_escape_sub(s))
    IN [i \in 1..Len(L) |-> LStrip(L[i])]

\* _format_help as a list: the lines the generator yields, in order.
_format_help(s) == splitlines(ansi_escape_sub(s))

----------------------------------------------------------------------------
(* Values of the directive part that the formatter specification leaves idle *)

NoContext == [built |-> FALSE]
NotParsed == [parsed |-> FALSE]
NoEnv     == [import |-> "unused"]
NoOptions == [has_prog |-> FALSE, prog |-> <<>>]

FormatInputs == StringsOver(EscAlphabet, MaxLen) \cup StringsOver(TreeAlphabet, MaxTreeLen)

InitFormat ==
    /\ pc = "format"
    /\ help_string \in FormatInputs
    /\ stripped = <<>>
    /\ lines = <<>>
    /\ arguments = <<>>
    /\ options = NoOptions
    /\ env = NoEnv
    /\ log = <<>>
    /\ ctx = NoContext
    /\ content = NotParsed
    /\ nodes = <<>>
    /\ raised = "none"

\* One call list(_format_help(help_string)).
format_help ==
    /\ pc = "format"
    /\ stripped' = ansi_escape_sub(help_string)
    /\ lines' = _format_help(help_string)
    /\ pc' = "done"
    /\ UNCHANGED <<help_string, arguments, options, env, log, ctx, content, nodes, raised>>

NextFormat == format_help

SpecFormat == InitFormat /\ [][NextFormat]_vars

----------------------------------------------------------------------------
(* Optional strings, exceptions, commands *)

None    == [is_none |-> TRUE, str |-> <<>>]
Some(s) == [is_none |-> FALSE, str |-> s]

\* Python truthiness of a str-or-None value
Truthy(o) == ~o.is_none /\ o.str # <<>>

\* a or b
Or(a, b) == IF Truthy(a) THEN a ELSE b

\* the classes that "except Exception" catches, among those that occur here
ExceptionSubclasses ==
    {"ValueError", "TypeError", "AttributeError", "ModuleNotFoundError", "RuntimeError"}
\* BaseException subclasses outside Exception
ExitExceptions == {"KeyboardInterrupt", "SystemExit"}

IsException(exc) == exc \in ExceptionSubclasses

\* text a custom get_help may return, and plain descriptions
CustomTexts == {<<120>>, <<ESC, 65, 120, LF, 121>>}
HelpTexts   == {None, Some(<<>>), Some(<<104, LF, ESC, LBRACKET, 48, 109, 105>>)}
ShortTexts  == {None, Some(<<>>), Some(<<115>>)}

\* what command.get_help(ctx) does: returns a str, returns a non-str (None),
\* or raises
GetHelpOutcomes ==
    {[kind |-> "return", value |-> Some(t), exc |-> "none"] : t \in CustomTexts}
    \cup {[kind |-> "return", value |-> None, exc |-> "none"]}
    \cup {[kind |-> "raise", value |-> None, exc |-> e] :
             e \in {"RuntimeError", "ValueError"} \cup ExitExceptions}

NoGetHelp == [kind |-> "absent", value |-> None, exc |-> "none"]

\* objects an attribute lookup may find: click commands, with or without a
\* callable get_help, and one object that is no click.Command
Commands ==
    {[is_command |-> TRUE, has_get_help |-> TRUE, get_help |-> g, help |-> h, short_help |-> sh] :
        g \in GetHelpOutcomes, h \in HelpTexts, sh \in ShortTexts}
    \cup
    {[is_command |-> TRUE, has_get_help |-> FALSE, get_help |-> NoGetHelp, help |-> h, short_help |-> sh] :
        h \in HelpTexts, sh \in ShortTexts}

NotACommand ==
    [is_command |-> FALSE, has_get_help |-> FALSE, get_help |-> NoGetHelp,
     help |-> None, short_help |-> None]

----------------------------------------------------------------------------
(* _get_click_object *)

\* index of the last ":" of s, 0 if there is none
RECURSIVE LastColonFrom(_, _)
LastColonFrom(s, i) ==
    IF i = 0 THEN 0
    ELSE IF s[i] = COLON THEN i
    ELSE LastColonFrom(s, i - 1)

\* s.rsplit(":", 1)
rsplit_colon(s) ==
    LET k == LastColonFrom(s, Len(s))
    IN IF k = 0 THEN <<s>>
       ELSE <<SubSeq(s, 1, k - 1), SubSeq(s, k + 1, Len(s))>>

\* s.split(":"): every field, empty ones included
RECURSIVE SplitColonFrom(_, _, _)
SplitColonFrom(s, i, cur) ==
    IF i > Len(s) THEN <<cur>>
    ELSE IF s[i] = COLON THEN <<cur>> \o SplitColonFrom(s, i + 1, <<>>)
    ELSE SplitColonFrom(s, i + 1, Append(cur, s[i]))

split_colon(s) == SplitColonFrom(s, 1, <<>>)

\* import_module(name) in environment e: the one importable module is
\* e.module_name; an empty name is a ValueError.
import_module(name, e) ==
    IF name = <<>> THEN [ok |-> FALSE, exc |-> "ValueError"]
    ELSE IF name = e.module_name THEN [ok |-> TRUE, exc |-> "none"]
    ELSE [ok |-> FALSE, exc |-> "ModuleNotFoundError"]

\* _get_click_object(import_name): the object found, or the exception raised
_get_click_object(import_name, e) ==
    LET parts == rsplit_colon(import_name)
    IN IF Len(parts) # 2
       THEN [ok |-> FALSE, exc |-> "ValueError", obj |-> NotACommand]
       ELSE LET module == import_module(parts[1], e)
            IN IF ~module.ok
               THEN [ok |-> FALSE, exc |-> module.exc, obj |-> NotACommand]
               ELSE IF parts[2] # e.attr_name
               THEN [ok |-> FALSE, exc |-> "AttributeError", obj |-> NotACommand]
               ELSE [ok |-> TRUE, exc |-> "none", obj |-> e.obj]

----------------------------------------------------------------------------
(* _format_command_custom *)

Warning(info_name, exc) == [level |-> "warning", names |-> info_name, exc |-> exc]

\* Variant: short_help takes precedence over help.
plain_description_short_first(command) ==
    LET help_string_ == Or(command.short_help, command.help)
    IN IF Truthy(help_string_) THEN _format_help(help_string_.str) ELSE <<>>

\* lines 61-64: the plain description
plain_description(command) ==
    LET help_string_ == Or(command.help, command.short_help)
    IN IF Truthy(help_string_) THEN _format_help(help_string_.str) ELSE <<>>

\* Variant: no except clause, a failure of get_help leaves the generator.
_format_command_custom_nocatch(c) ==
    LET command == c.command
        g == command.get_help
        failure == IF g.kind = "raise" THEN g.exc
                   ELSE IF g.value.is_none THEN "TypeError"
                   ELSE "none"
    IN IF command.has_get_help /\ failure = "none"
       THEN [lines |-> _format_help(g.value.str), warnings |-> <<>>, raised |-> "none"]
       ELSE IF command.has_get_help
       THEN [lines |-> <<>>, warnings |-> <<>>, raised |-> failure]
       ELSE [lines |-> plain_description(command), warnings |-> <<>>, raised |-> "none"]

\* list(_format_command_custom(c)): the lines yielded, the warnings logged and
\* the exception that leaves the generator ("none" if it finishes).
_format_command_custom(c) ==
    LET command == c.command
        g == command.get_help
        \* what leaves the try body: "none" or the exception type
        failure == IF g.kind = "raise" THEN g.exc
                   ELSE IF g.value.is_none THEN "TypeError"   \* ansi_escape.sub(None)
                   ELSE "none"
    IN IF command.has_get_help /\ failure = "none"
       THEN [lines |-> _format_help(g.value.str), warnings |-> <<>>, raised |-> "none"]
       ELSE IF command.has_get_help /\ ~IsException(failure)
       THEN [lines |-> <<>>, warnings |-> <<>>, raised |-> failure]
       ELSE [lines |-> plain_description(command),
             warnings |-> IF command.has_get_help
                          THEN <<Warning(c.info_name, failure)>> ELSE <<>>,
             raised |-> "none"]

----------------------------------------------------------------------------
(* ClickCustomDirective.run *)

ErrorRecord(import_name, what) == [level |-> "error", names |-> import_name, exc |-> what]

IsBlank(line) == \A j \in 1..Len(line) : line[j] \in Whitespace

\* lines 106-109: the ViewList built from content_lines
ViewList(content_lines) ==
    [parsed |-> TRUE,
     items |-> [i \in 1..Len(content_lines) |->
                   [line |-> content_lines[i], source |-> "<click-custom>", offset |-> i - 1]]]

\* state.nested_parse (docutils): the children of the container, abstracted
\* to one node per block of consecutive non-blank lines
RECURSIVE ParseFrom(_, _, _)
ParseFrom(ls, i, cur) ==
    IF i > Len(ls) THEN (IF cur = <<>> THEN <<>> ELSE <<[paragraph |-> cur]>>)
    ELSE IF IsBlank(ls[i])
         THEN (IF cur = <<>> THEN <<>> ELSE <<[paragraph |-> cur]>>) \o ParseFrom(ls, i + 1, <<>>)
         ELSE ParseFrom(ls, i + 1, Append(cur, ls[i]))

nested_parse(content_lines) == ParseFrom(content_lines, 1, <<>>)

\* Variant: the default is the field after the first colon, split(":")[1].
prog_name_first_field(import_name, opts) ==
    IF opts.has_prog THEN opts.prog
    ELSE split_colon(import_name)[2]

\* line 96: self.options.get("prog", import_name.split(":")[-1])
prog_name(import_name, opts) ==
    IF opts.has_prog THEN opts.prog
    ELSE split_colon(import_name)[Len(split_colon(import_name))]

\* Variant: run() without the isinstance check of line 91.
run_result_no_typecheck(import_name, opts, e) ==
    LET found == _get_click_object(import_name, e)
        quiet == [log |-> <<>>, ctx |-> NoContext, lines |-> <<>>,
                  content |-> NotParsed, nodes |-> <<>>, raised |-> "none"]
    IN IF ~found.ok
       THEN [quiet EXCEPT !.log = <<ErrorRecord(import_name, found.exc)>>]
       ELSE LET c == [built |-> TRUE, command |-> found.obj,
                      info_name |-> prog_name(import_name, opts)]
                fc == _format_command_custom(c)
            IN IF fc.raised # "none"
               THEN [quiet EXCEPT !.ctx = c, !.raised = fc.raised]
               ELSE [log |-> fc.warnings, ctx |-> c, lines |-> fc.lines,
                     content |-> ViewList(fc.lines),
                     nodes |-> nested_parse(fc.lines), raised |-> "none"]

\* the whole of run(): what it logs, builds, parses and returns
run_result(import_name, opts, e) ==
    LET found == _get_click_object(import_name, e)
        quiet == [log |-> <<>>, ctx |-> NoContext, lines |-> <<>>,
                  content |-> NotParsed, nodes |-> <<>>, raised |-> "none"]
    IN IF ~found.ok
       THEN [quiet EXCEPT !.log = <<ErrorRecord(import_name, found.exc)>>]
       ELSE IF ~found.obj.is_command
       THEN [quiet EXCEPT !.log = <<ErrorRecord(import_name, "not a Click command")>>]
       ELSE LET c == [built |-> TRUE, command |-> found.obj,
                      info_name |-> prog_name(import_name, opts)]
                fc == _format_command_custom(c)
            IN IF fc.raised # "none"
               THEN [quiet EXCEPT !.ctx = c, !.raised = fc.raised]
               ELSE [log |-> fc.warnings, ctx |-> c, lines |-> fc.lines,
                     content |-> ViewList(fc.lines),
                     nodes |-> nested_parse(fc.lines), raised |-> "none"]

References  == StringsOver(RefAlphabet, MaxRefLen)
ModuleNames == {<<109>>, <<109, COLON, 109>>}
AttrNames   == {<<99>>}
ProgOptions == {NoOptions, [has_prog |-> TRUE, prog |-> <<>>], [has_prog |-> TRUE, prog |-> <<112>>]}

Environments ==
    {[import |-> "used", module_name |-> m, attr_name |-> a, obj |-> o] :
        m \in ModuleNames, a \in AttrNames, o \in Commands \cup {NotACommand}}

Init ==
    /\ pc = "run"
    /\ arguments \in References
    /\ options \in ProgOptions
    /\ env \in Environments
    /\ help_string = <<>>
    /\ stripped = <<>>
    /\ lines = <<>>
    /\ log = <<>>
    /\ ctx = NoContext
    /\ content = NotParsed
    /\ nodes = <<>>
    /\ raised = "none"

\* One execution of the directive.
run ==
    /\ pc = "run"
    /\ LET r == run_result(arguments, options, env)
       IN /\ log' = log \o r.log
          /\ ctx' = r.ctx
          /\ lines' = r.lines
          /\ content' = r.content
          /\ nodes' = r.nodes
          /\ raised' = r.raised
    /\ pc' = "done"
    /\ UNCHANGED <<help_string, stripped, arguments, options, env>>

Next == run

Spec == Init /\ [][Next]_vars

----------------------------------------------------------------------------
(* Vocabulary of the claims about the formatter *)

HasMarker(s) == \E i \in 1..Len(s) : s[i] = BS

\* line starts with the bar-mode prefix "| "
StartsWithBar(line) == Len(line) >= 2 /\ line[1] = BAR /\ line[2] = SP

\* s contains a match of ansi_escape
HasEscapeSequence(s) == \E i \in 1..Len(s) : MatchLen(s, i) > 0

\* the line ".. code-block:: text"
Introducer == <<46,46,32,99,111,100,101,45,98,108,111,99,107,58,58,32,116,101,120,116>>

ContainsIntroducer(line) ==
    \E i \in 0..(Len(line) - Len(Introducer)) :
        \A j \in 1..Len(Introducer) : line[i + j] = Introducer[j]

\* an indented line whose first non-blank character is a tree glyph
IsTreeLine(line) ==
    \E k \in 1..(Len(line) - 1) :
        /\ \A j \in 1..k : line[j] \in Whitespace
        /\ line[k + 1] = TREE

\* number of maximal runs of 2 or more consecutive tree lines
TreeRegionCount(s) ==
    LET L == splitlines(s)
    IN Cardinality({i \in 1..(Len(L) - 1) :
           /\ IsTreeLine(L[i]) /\ IsTreeLine(L[i + 1])
           /\ (i = 1 \/ ~IsTreeLine(L[i - 1]))})

\* an indented, non-blank line
IsIndentedLine(line) ==
    /\ Len(line) >= 2
    /\ line[1] \in Whitespace
    /\ \E j \in 1..Len(line) : line[j] \notin Whitespace

\* s has a run of 2 or more consecutive indented lines (tree diagram or
\* consistently indented text block)
HasLiteralRegion(s) ==
    LET L == splitlines(s)
    IN \E i \in 1..(Len(L) - 1) : IsIndentedLine(L[i]) /\ IsIndentedLine(L[i + 1])

RemoveMarkers(line) == SelectSeq(line, LAMBDA c : c # BS)

\* a is b with some characters deleted
RECURSIVE IsSubseqFrom(_, _, _, _)
IsSubseqFrom(a, i, b, j) ==
    IF i > Len(a) THEN TRUE
    ELSE IF j > Len(b) THEN FALSE
    ELSE IF a[i] = b[j] THEN IsSubseqFrom(a, i + 1, b, j + 1)
    ELSE IsSubseqFrom(a, i, b, j + 1)

IsSubseq(a, b) == IsSubseqFrom(a, 1, b, 1)

\* positions of s at which an escape sequence begins
SeqStarts(s) == {i \in 1..Len(s) : MatchLen(s, i) > 0}

RECURSIVE SumMatchLen(_, _)
SumMatchLen(s, S) ==
    IF S = {} THEN 0
    ELSE LET i == CHOOSE x \in S : TRUE
         IN MatchLen(s, i) + SumMatchLen(s, S \ {i})

EscCount(s) == Cardinality({i \in 1..Len(s) : s[i] = ESC})

----------------------------------------------------------------------------
(* Claims about _format_help, checked under SpecFormat *)

\* C1: no line produced by _format_help contains the group marker.
C1_NoMarkerSurvives ==
    pc = "done" =>
        \A i \in 1..Len(lines) : \A j \in 1..Len(lines[i]) : lines[i][j] # BS

\* C2 as stated: when the input contains a marker and no input line starts
\* with "| ", no produced line starts with "| ".
C2_NoBarPrefix_Original ==
    (/\ pc = "done"
     /\ HasMarker(help_string)
     /\ \A i \in 1..Len(splitlines(help_string)) :
            ~StartsWithBar(splitlines(help_string)[i]))
    => \A i \in 1..Len(lines) : ~StartsWithBar(lines[i])

\* C2 (amended): when the input contains a marker and no input line starts
\* with "| " once its escape sequences are removed, no produced line starts
\* with "| ".
C2_NoBarPrefix ==
    (/\ pc = "done"
     /\ HasMarker(help_string)
     /\ \A i \in 1..Len(splitlines(help_string)) :
            ~StartsWithBar(ansi_escape_sub(splitlines(help_string)[i])))
    => \A i \in 1..Len(lines) : ~StartsWithBar(lines[i])

\* a marker alone on a line, followed by a line of text and an escape sequence
\* somewhere, has been formatted
C2_Witness ==
    /\ pc = "done"
    /\ HasEscapeSequence(help_string)
    /\ \A i \in 1..Len(splitlines(help_string)) :
            ~StartsWithBar(ansi_escape_sub(splitlines(help_string)[i]))
    /\ Len(splitlines(help_string)) >= 2
    /\ splitlines(help_string)[1] = <<BS>>
    /\ Len(lines) >= 2
    /\ lines[2] # <<>>

\* C3 as stated: an input with no marker and no literal-block region is
\* produced as its line-split form.
C3_Identity_Original ==
    (/\ pc = "done"
     /\ ~HasMarker(help_string)
     /\ ~HasLiteralRegion(help_string))
    => lines = splitlines(help_string)

\* C3 (amended): an input with no marker, no literal-block region and no
\* escape sequence is produced as its line-split form: same lines, same
\* order, no introducer line, indentation untouched.
C3_Identity ==
    (/\ pc = "done"
     /\ ~HasMarker(help_string)
     /\ ~HasLiteralRegion(help_string)
     /\ ~HasEscapeSequence(help_string))
    => /\ lines = splitlines(help_string)
       /\ \A i \in 1..Len(lines) : ~ContainsIntroducer(lines[i])

\* an input of several lines, one of them indented and one holding an ESC
\* that starts no escape sequence, has been formatted
C3_Witness ==
    /\ pc = "done"
    /\ ~HasMarker(help_string)
    /\ ~HasLiteralRegion(help_string)
    /\ ~HasEscapeSequence(help_string)
    /\ Len(lines) >= 2
    /\ \E i \in 1..Len(lines) : Len(lines[i]) >= 2 /\ lines[i][1] = SP
    /\ \E i \in 1..Len(help_string) : help_string[i] = ESC

\* C4: an input with exactly one tree-diagram region of 2 or more lines is
\* produced with exactly one '.. code-block:: text' line, placed before the
\* region's lines.
C4_OneIntroducer ==
    (pc = "done" /\ TreeRegionCount(help_string) = 1)
    => /\ Cardinality({i \in 1..Len(lines) : lines[i] = Introducer}) = 1
       /\ \E k \in 1..Len(lines) :
            /\ lines[k] = Introducer
            /\ \A i \in 1..k : TREE \notin {lines[i][j] : j \in 1..Len(lines[i])}
            /\ \E i \in (k + 1)..Len(lines) :
                   TREE \in {lines[i][j] : j \in 1..Len(lines[i])}

\* C5 as stated: the stripped text contains no escape sequence, keeps the
\* other characters in order, and equals the input when the input has none.
C5_Strip_Original ==
    pc = "done" =>
        /\ ~HasEscapeSequence(stripped)
        /\ IsSubseq(stripped, help_string)
        /\ (~HasEscapeSequence(help_string) => stripped = help_string)

\* C5 (amended): the stripped text is the input without the escape sequences
\* a left-to-right scan finds in it: the other characters are kept in order,
\* the only ESC characters left are those that begin no escape sequence in
\* the input, and the text is free of escape sequences whenever every ESC of
\* the input begins one; an input with no escape sequence is unchanged.
C5_Strip ==
    pc = "done" =>
        /\ IsSubseq(stripped, help_string)
        /\ Len(stripped) = Len(help_string) - SumMatchLen(help_string, SeqStarts(help_string))
        /\ EscCount(stripped) = EscCount(help_string) - Cardinality(SeqStarts(help_string))
        /\ (EscCount(help_string) = Cardinality(SeqStarts(help_string))
                => ~HasEscapeSequence(stripped))
        /\ (~HasEscapeSequence(help_string) => stripped = help_string)

\* an input with two escape sequences and other text has been stripped
C5_Witness ==
    /\ pc = "done"
    /\ Cardinality(SeqStarts(help_string)) >= 2
    /\ stripped # <<>>
    /\ stripped # help_string

\* C10: as many lines are produced as the line-split input has; a line that
\* is only the marker is produced as an empty line, every other line with
\* its text unchanged apart from removed markers.
C10_LinesPreserved ==
    pc = "done" =>
        LET raw == splitlines(help_string)
        IN /\ Len(lines) = Len(raw)
           /\ \A i \in 1..Len(raw) :
                  /\ i <= Len(lines)
                  /\ lines[i] = RemoveMarkers(raw[i])

----------------------------------------------------------------------------
(* Claims about _format_command_custom and the directive, checked under Spec *)

HasColon(s) == \E i \in 1..Len(s) : s[i] = COLON

ColonCount(s) == Cardinality({i \in 1..Len(s) : s[i] = COLON})

\* the reference names the importable module, its attribute, and the
\* attribute is a click.Command
Resolves ==
    /\ HasColon(arguments)
    /\ rsplit_colon(arguments)[1] = env.module_name
    /\ rsplit_colon(arguments)[2] = env.attr_name
    /\ env.obj.is_command

\* the formatted plain description: help, else short_help, else nothing
PlainLines(command) ==
    IF Truthy(command.help) THEN splitlines(ansi_escape_sub(command.help.str))
    ELSE IF Truthy(command.short_help) THEN splitlines(ansi_escape_sub(command.short_help.str))
    ELSE <<>>

\* C6 as stated: whatever get_help raises is caught, one warning names the
\* command, nothing propagates and the plain description is produced.
C6_Fallback_Original ==
    (/\ pc = "done" /\ Resolves
     /\ env.obj.has_get_help
     /\ env.obj.get_help.kind = "raise")
    => /\ raised = "none"
       /\ log = <<Warning(ctx.info_name, env.obj.get_help.exc)>>
       /\ lines = PlainLines(env.obj)

\* C6 (amended): when get_help raises an exception derived from Exception,
\* it is caught, one warning names the command, nothing propagates and
\* exactly the formatted plain description is produced.
C6_Fallback ==
    (/\ pc = "done" /\ Resolves
     /\ env.obj.has_get_help
     /\ env.obj.get_help.kind = "raise"
     /\ env.obj.get_help.exc \in ExceptionSubclasses)
    => /\ raised = "none"
       /\ log = <<Warning(ctx.info_name, env.obj.get_help.exc)>>
       /\ lines = PlainLines(env.obj)

\* get_help raised, was caught and a non-empty plain description was produced
C6_Witness ==
    /\ pc = "done" /\ Resolves
    /\ env.obj.has_get_help
    /\ env.obj.get_help.kind = "raise"
    /\ env.obj.get_help.exc \in ExceptionSubclasses
    /\ Len(log) = 1
    /\ lines # <<>>

PlainPathTaken ==
    \/ ~env.obj.has_get_help
    \/ env.obj.get_help.kind = "raise" /\ env.obj.get_help.exc \in ExceptionSubclasses
    \/ env.obj.get_help.kind = "return" /\ env.obj.get_help.value.is_none

\* C8: on the plain-description path, nothing is produced (and nothing
\* raised) when help and short_help are both absent or empty; help is
\* produced when present, short_help only when help is absent or empty.
C8_PlainDescription ==
    (pc = "done" /\ Resolves /\ PlainPathTaken)
    => /\ raised = "none"
       /\ (~Truthy(env.obj.help) /\ ~Truthy(env.obj.short_help) => lines = <<>>)
       /\ (Truthy(env.obj.help)
              => lines = splitlines(ansi_escape_sub(env.obj.help.str)))
       /\ (~Truthy(env.obj.help) /\ Truthy(env.obj.short_help)
              => lines = splitlines(ansi_escape_sub(env.obj.short_help.str)))

\* a command with both descriptions, and no usable get_help, was rendered
C8_Witness ==
    /\ pc = "done" /\ Resolves /\ PlainPathTaken
    /\ Truthy(env.obj.help) /\ Truthy(env.obj.short_help)
    /\ lines # <<>>

\* C9: the context's display name is the 'prog' option when given, else the
\* text after the last colon of the reference, the attribute name that
\* _get_click_object looked up; the module path is everything before the
\* last colon.
C9_DisplayName ==
    (pc = "done" /\ ctx.built)
    => /\ HasColon(arguments)
       /\ ctx.info_name = IF options.has_prog THEN options.prog
                          ELSE rsplit_colon(arguments)[2]
       /\ rsplit_colon(arguments)[2] = env.attr_name
       /\ rsplit_colon(arguments)[1] = env.module_name
       /\ arguments = rsplit_colon(arguments)[1] \o <<COLON>> \o rsplit_colon(arguments)[2]
       /\ ~HasColon(rsplit_colon(arguments)[2])

\* a reference with several colons resolved and no 'prog' option was given
C9_Witness ==
    /\ pc = "done" /\ ctx.built
    /\ ~options.has_prog
    /\ ColonCount(arguments) >= 2

====
